---- MODULE Spec2Model ----
(***************************************************************************)
(* Model of the agent framework's secure resource-access layer             *)
(* (tools/filesystem_tools.py, tools/get_tools.py), of its conversation    *)
(* memory and of the limits of one agent run (agents/bedrock_agent.py,     *)
(* config/settings.py).                                                    *)
(*                                                                         *)
(* Paths are sequences of one-character strings, so that the string        *)
(* operations the code relies on (str.startswith, the `in` substring test, *)
(* os.path.abspath, os.path.join, os.path.splitext, str.lower) are         *)
(* computed character by character, as Python computes them.               *)
(***************************************************************************)
EXTENDS Integers, Sequences, FiniteSets, TLC

(***************************************************************************)
(* Bounds of the model                                                     *)
(***************************************************************************)
\* longest path enumerated exhaustively over PathAlphabet
MaxPathLen == 4
\* number of sandboxed / direct tool calls in one behaviour
MaxCalls == 3
\* number of add_message calls in one behaviour of the ring history
MaxAdds == 5
\* largest ring capacity constructed
MaxCapacity == 3

\* a dictionary key holding a flag; present = FALSE when the key is missing
Flag(b) == [present |-> TRUE, value |-> b]
AbsentFlag == [present |-> FALSE, value |-> FALSE]

\* an optional list: NoneList is Python's None
SomeList(l) == [none |-> FALSE, items |-> l]
NoneList == [none |-> TRUE, items |-> <<>>]

\* an optional integer: NoneInt is Python's None
SomeInt(n) == [none |-> FALSE, value |-> n]
NoneInt == [none |-> TRUE, value |-> 0]

(***************************************************************************)
(* Python string primitives on character sequences                         *)
(***************************************************************************)
\* str.startswith(prefix)
StartsWith(s, p) ==
    /\ Len(p) <= Len(s)
    /\ SubSeq(s, 1, Len(p)) = p

\* str.endswith(suffix)
EndsWith(s, p) ==
    /\ Len(p) <= Len(s)
    /\ SubSeq(s, Len(s) - Len(p) + 1, Len(s)) = p

\* `p in s` for two strings
Contains(s, p) ==
    \E i \in 0..(Len(s) - Len(p)) : SubSeq(s, i + 1, i + Len(p)) = p

\* str.rfind(ch) for a single character, 0-based, -1 when absent
RFind(s, ch) ==
    LET hits == {i \in 1..Len(s) : s[i] = ch}
    IN  IF hits = {} THEN -1
        ELSE (CHOOSE i \in hits : \A j \in hits : j <= i) - 1

\* str.lower(), character by character
LowerChar(c) ==
    IF c = "E" THEN "e" ELSE IF c = "D" THEN "d" ELSE c

lower(s) == [i \in 1..Len(s) |-> LowerChar(s[i])]

RECURSIVE SplitFrom(_, _, _)
\* str.split('/') as a left-to-right scan: cur is the component being read
SplitFrom(s, i, cur) ==
    IF i > Len(s) THEN <<cur>>
    ELSE IF s[i] = "/" THEN <<cur>> \o SplitFrom(s, i + 1, <<>>)
    ELSE SplitFrom(s, i + 1, Append(cur, s[i]))

split(s) == SplitFrom(s, 1, <<>>)

RECURSIVE JoinComps(_)
\* '/'.join(comps)
JoinComps(comps) ==
    IF Len(comps) = 0 THEN <<>>
    ELSE IF Len(comps) = 1 THEN comps[1]
    ELSE comps[1] \o <<"/">> \o JoinComps(Tail(comps))

(***************************************************************************)
(* posixpath                                                               *)
(***************************************************************************)
DotDot == <<".", ".">>

\* os.path.join(a, b)
join(a, b) ==
    IF StartsWith(b, <<"/">>) THEN b
    ELSE IF a = <<>> \/ EndsWith(a, <<"/">>) THEN a \o b
    ELSE a \o <<"/">> \o b

RECURSIVE NormComps(_, _, _)
\* the component loop of posixpath.normpath
NormComps(comps, acc, initial_slashes) ==
    IF Len(comps) = 0 THEN acc
    ELSE LET comp == Head(comps)
             rest == Tail(comps)
         IN  IF comp = <<>> \/ comp = <<".">>
               THEN NormComps(rest, acc, initial_slashes)
             ELSE IF \/ comp # DotDot
                     \/ (initial_slashes = 0 /\ Len(acc) = 0)
                     \/ (Len(acc) > 0 /\ acc[Len(acc)] = DotDot)
               THEN NormComps(rest, Append(acc, comp), initial_slashes)
             ELSE IF Len(acc) > 0
               THEN NormComps(rest, SubSeq(acc, 1, Len(acc) - 1), initial_slashes)
             ELSE NormComps(rest, acc, initial_slashes)

\* posixpath.normpath
normpath(path) ==
    IF path = <<>> THEN <<".">>
    ELSE LET initial_slashes ==
                 IF ~StartsWith(path, <<"/">>) THEN 0
                 ELSE IF StartsWith(path, <<"/", "/">>) /\ ~StartsWith(path, <<"/", "/", "/">>)
                      THEN 2
                 ELSE 1
             body == JoinComps(NormComps(split(path), <<>>, initial_slashes))
             out == [i \in 1..initial_slashes |-> "/"] \o body
         IN  IF out = <<>> THEN <<".">> ELSE out

\* os.path.abspath, with the process working directory cwd
abspath(path, cwd) ==
    IF StartsWith(path, <<"/">>) THEN normpath(path)
    ELSE normpath(join(cwd, path))

\* os.path.splitext(path)[1]
splitext_ext(p) ==
    LET sepIndex == RFind(p, "/")
        dotIndex == RFind(p, ".")
    IN  IF dotIndex > sepIndex
             /\ \E k \in (sepIndex + 1)..(dotIndex - 1) : p[k + 1] # "."
        THEN SubSeq(p, dotIndex + 1, Len(p))
        ELSE <<>>

(***************************************************************************)
(* Input domains                                                           *)
(***************************************************************************)
PathAlphabet == {"/", ".", "d", "e"}

\* "/data/../etc/passwd" against root "/data", with one-letter names
PathScenarioA == <<"/", "d", "/", ".", ".", "/", "e", "/", "p">>
\* "/data/a/../b.txt": inside the root once normalized
PathDotDotInside == <<"/", "d", "/", "e", "/", ".", ".", "/", "d", ".", "e">>
\* "/data-evil/p.txt": a sibling whose name begins with the root's characters
PathSibling == <<"/", "d", "e", "/", "p", ".", "e">>
\* "/etc/passwd"
PathEtcPasswd == <<"/", "e", "/", "p">>
\* a home-relative path and an upper-case extension
PathTilde == <<"~", "/", "d">>
PathUpperExt == <<"/", "d", "/", "p", ".", "E">>
PathInside == <<"/", "d", "/", "p", ".", "e">>
PathBadExt == <<"/", "d", "/", "p", ".", "d">>

NamedPaths ==
    {PathScenarioA, PathDotDotInside, PathSibling, PathEtcPasswd,
     PathTilde, PathUpperExt, PathInside, PathBadExt}

\* every string of at most MaxPathLen characters over PathAlphabet
ShortPaths == UNION {[1..n -> PathAlphabet] : n \in 0..MaxPathLen}

Paths == ShortPaths \cup NamedPaths

RootData == <<"/", "d">>
RootDataSlash == <<"/", "d", "/">>
Roots == {RootData, RootDataSlash}

CwdInside == <<"/", "d">>
CwdOutside == <<"/", "e">>
Cwds == {CwdInside, CwdOutside}

ExtE == <<".", "e">>
PatDotDot == <<".", ".">>
PatTilde == <<"~">>

\* restricted_patterns lists: [] and ['..', '~']
PatternLists == {<<>>, <<PatDotDot, PatTilde>>}
\* allowed_extensions: None, [] and ['.e']
ExtensionLists == {NoneList, SomeList(<<>>), SomeList(<<ExtE>>)}

\* the 'security' dictionaries the model draws from; a key that the
\* dictionary does not hold is Absent
SecurityConfigs ==
    [validate_paths : {Flag(TRUE), Flag(FALSE), AbsentFlag},
     restricted_patterns : PatternLists,
     allowed_extensions : ExtensionLists,
     monitor_operations : {TRUE},
     log_all_operations : {FALSE},
     enable_security : {TRUE}]

(***************************************************************************)
(* FileSystemSecurity.validate_path and the module-level validate_path     *)
(***************************************************************************)
\* security_config.get('validate_paths', True)
validate_paths_enabled(security_config) ==
    IF ~security_config.validate_paths.present THEN TRUE
    ELSE security_config.validate_paths.value

Elems(list) == {list[i] : i \in 1..Len(list)}

\* truthiness of security_config.get('allowed_extensions')
has_allowed_extensions(security_config) ==
    /\ ~security_config.allowed_extensions.none
    /\ security_config.allowed_extensions.items # <<>>

\* mutant: the restricted patterns are looked for in the normalized path
validate_path_patterns_on_normalized(security_config, path, root_dir, cwd) ==
    IF ~validate_paths_enabled(security_config) THEN TRUE
    ELSE LET abs_path == abspath(path, cwd)
             abs_root == abspath(root_dir, cwd)
         IN  IF ~StartsWith(abs_path, abs_root) THEN FALSE
             ELSE IF \E pattern \in Elems(security_config.restricted_patterns) :
                        Contains(abs_path, pattern)
               THEN FALSE
             ELSE IF /\ has_allowed_extensions(security_config)
                     /\ lower(splitext_ext(path)) \notin Elems(security_config.allowed_extensions.items)
               THEN FALSE
             ELSE TRUE

\* mutant: the validate_paths flag is not consulted
validate_path_ignores_flag(security_config, path, root_dir, cwd) ==
    LET abs_path == abspath(path, cwd)
        abs_root == abspath(root_dir, cwd)
    IN  IF ~StartsWith(abs_path, abs_root) THEN FALSE
        ELSE IF \E pattern \in Elems(security_config.restricted_patterns) :
                   Contains(path, pattern)
          THEN FALSE
        ELSE IF /\ has_allowed_extensions(security_config)
                /\ lower(splitext_ext(path)) \notin Elems(security_config.allowed_extensions.items)
          THEN FALSE
        ELSE TRUE

\* mutant: the extension is compared as written, without lower()
validate_path_case_sensitive(security_config, path, root_dir, cwd) ==
    IF ~validate_paths_enabled(security_config) THEN TRUE
    ELSE LET abs_path == abspath(path, cwd)
             abs_root == abspath(root_dir, cwd)
         IN  IF ~StartsWith(abs_path, abs_root) THEN FALSE
             ELSE IF \E pattern \in Elems(security_config.restricted_patterns) :
                        Contains(path, pattern)
               THEN FALSE
             ELSE IF /\ has_allowed_extensions(security_config)
                     /\ splitext_ext(path) \notin Elems(security_config.allowed_extensions.items)
               THEN FALSE
             ELSE TRUE

\* mutant: allowed_extensions is not consulted
validate_path_no_extension_check(security_config, path, root_dir, cwd) ==
    IF ~validate_paths_enabled(security_config) THEN TRUE
    ELSE LET abs_path == abspath(path, cwd)
             abs_root == abspath(root_dir, cwd)
         IN  IF ~StartsWith(abs_path, abs_root) THEN FALSE
             ELSE IF \E pattern \in Elems(security_config.restricted_patterns) :
                        Contains(path, pattern)
               THEN FALSE
             ELSE TRUE

\* FileSystemSecurity.validate_path(path, root_dir)
validate_path(security_config, path, root_dir, cwd) ==
    IF ~validate_paths_enabled(security_config) THEN TRUE
    ELSE LET abs_path == abspath(path, cwd)
             abs_root == abspath(root_dir, cwd)
         IN  IF ~StartsWith(abs_path, abs_root) THEN FALSE
             ELSE IF \E pattern \in Elems(security_config.restricted_patterns) :
                        Contains(path, pattern)
               THEN FALSE
             ELSE IF /\ has_allowed_extensions(security_config)
                     /\ lower(splitext_ext(path)) \notin Elems(security_config.allowed_extensions.items)
               THEN FALSE
             ELSE TRUE

\* suspicious_patterns of the module-level validate_path
suspicious_patterns ==
    <<PatDotDot, PatTilde, <<"\\", "$">>, <<"|">>, <<";">>, <<"&">>>>

\* validate_path(path, root_dir), the module-level function
validate_path_function(path, root_dir, cwd) ==
    LET abs_path == abspath(path, cwd)
        abs_root == abspath(root_dir, cwd)
    IN  IF ~StartsWith(abs_path, abs_root) THEN FALSE
        ELSE IF \E pattern \in Elems(suspicious_patterns) : Contains(path, pattern)
          THEN FALSE
        ELSE TRUE

(***************************************************************************)
(* State                                                                   *)
(***************************************************************************)
VARIABLES
    vp,                 \* the arguments of a path validation: path, root_dir, cwd, security_config
    vp_result,          \* what FileSystemSecurity.validate_path and validate_path returned
    FILESYSTEM_CONFIG,  \* config.settings.FILESYSTEM_CONFIG
    cwd,                \* os.getcwd()
    security_manager,   \* the FileSystemSecurity instance: security_config and metrics
    files,              \* the file system: size of the file at each location, NoneInt when absent
                        \* (the tools that write are library code; the model follows the
                        \* bytes they move in call.moved and leaves the files as they are)
    agent,              \* BedrockAgent.tools, once setup_tools has run
    call,               \* the last tool call: its arguments, the steps it took, its result
    stats,              \* number of calls made through safe_wrapper / directly, and of error results
    history,            \* a LimitedChatMessageHistory: its messages and max_messages
    added,              \* the messages added since construction or the last clear, in order
    ledger,             \* a FileSystemMetrics object used on its own
    reported,           \* the errors handed to ledger.add_error since construction, in order
    snapshots,          \* the values get_metrics returned, oldest first, each with the
                        \* ledger as it was before the call and the number of
                        \* record_operation / add_error calls made since it returned
    memory,             \* BedrockAgent.memory: its chat_memory and its rolling summary
    session,            \* the agent session: its memory_config, the turns appended since
                        \* construction or the last clear, its last operation and what run returned
    executor,           \* one AgentExecutor run: AGENT_CONFIG's environment, the state of
                        \* the loop, its iterations, elapsed seconds, tool and model calls
    toolset,            \* one call of get_filesystem_tools: its arguments and the tools returned
    console,            \* the chat loop of main.py: ChatConfig.verbose_level, the verbose
                        \* flag of the agent's executor, the commands processed and what
                        \* process_commands returned last
    disk,               \* the directory and the target file a FileWriter works on
    writer              \* the last FileWriter operation: its arguments, its result and
                        \* the disk as it was before

vpVars == <<vp, vp_result>>
sandboxVars == <<FILESYSTEM_CONFIG, cwd, security_manager, files, agent, call, stats>>
ringVars == <<history, added>>
ledgerVars == <<ledger, reported, snapshots>>
memoryVars == <<memory, session>>
runVars == <<executor>>
toolsetVars == <<toolset>>
consoleVars == <<console>>
writerVars == <<disk, writer>>
vars == <<vpVars, sandboxVars, ringVars, ledgerVars, memoryVars, runVars, toolsetVars,
          consoleVars, writerVars>>

(***************************************************************************)
(* Tool classes, metrics, file system                                      *)
(***************************************************************************)
\* class names, as the words they are made of
ReadFileTool == <<"Read", "File", "Tool">>
WriteFileTool == <<"Write", "File", "Tool">>
ListDirectoryTool == <<"List", "Directory", "Tool">>
FileSearchTool == <<"File", "Search", "Tool">>
ToolClasses == {ReadFileTool, WriteFileTool, ListDirectoryTool, FileSearchTool}

\* operations_map of get_filesystem_tools
operations_map ==
    [op \in {"read", "write", "list", "search"} |->
        CASE op = "read" -> ReadFileTool
          [] op = "write" -> WriteFileTool
          [] op = "list" -> ListDirectoryTool
          [] op = "search" -> FileSearchTool]

LowerWord(w) ==
    CASE w = "Read" -> "read"
      [] w = "Write" -> "write"
      [] w = "List" -> "list"
      [] w = "File" -> "file"
      [] w = "Directory" -> "directory"
      [] w = "Search" -> "search"
      [] w = "Tool" -> "tool"
      [] OTHER -> w

RECURSIVE RemoveWord(_, _)
RemoveWord(words, w) ==
    IF Len(words) = 0 THEN <<>>
    ELSE IF Head(words) = w THEN RemoveWord(Tail(words), w)
    ELSE <<Head(words)>> \o RemoveWord(Tail(words), w)

\* tool_class.__name__.replace('Tool', '').lower()
operation_type(tool_class) ==
    LET stripped == RemoveWord(tool_class, "Tool")
    IN  [i \in 1..Len(stripped) |-> LowerWord(stripped[i])]

\* FileSystemMetrics.__init__; active = FALSE stands for metrics = None
NewMetrics ==
    [active |-> TRUE,
     operations |-> [k \in {<<"read">>, <<"write">>, <<"list">>, <<"search">>} |-> 0],
     errors |-> <<>>,
     total_bytes_processed |-> 0]

NoMetrics == [NewMetrics EXCEPT !.active = FALSE]

\* FileSystemMetrics.record_operation(operation, bytes_processed)
record_operation(metrics, operation, bytes_processed) ==
    [metrics EXCEPT
        !.operations = [k \in (DOMAIN metrics.operations) \cup {operation} |->
                           IF k = operation
                           THEN (IF k \in DOMAIN metrics.operations
                                 THEN metrics.operations[k] ELSE 0) + 1
                           ELSE metrics.operations[k]],
        !.total_bytes_processed = metrics.total_bytes_processed + bytes_processed]

\* FileSystemMetrics.add_error(error)
add_error(metrics, error) ==
    [metrics EXCEPT !.errors = Append(metrics.errors, error)]

\* FileSystemSecurity.log_operation(operation, path)
log_operation(manager, operation, path) ==
    IF manager.metrics.active
    THEN [manager EXCEPT !.metrics = record_operation(manager.metrics, operation, 0)]
    ELSE manager

\* FileSystemSecurity.__init__(config): config or FILESYSTEM_CONFIG
FileSystemSecurity(config) ==
    [config |-> config,
     security_config |-> config.security,
     metrics |-> IF config.security.monitor_operations THEN NewMetrics ELSE NoMetrics]

\* st_size of a directory, and the sizes of the files and payloads of the model
DirSize == 4096
SmallSize == 512
BigSize == 2048
SizeLimit == 1024

PathRelative == <<"p", ".", "e">>
SandboxRoots == {RootData}
LocSmall == PathInside
LocBig == PathBadExt

\* the paths handed to the tools
ToolPaths ==
    {<<>>, PathInside, PathBadExt, PathSibling, PathEtcPasswd, PathDotDotInside,
     PathRelative}

\* the directories of the file system; they all exist
Dirs == {<<"/">>, <<"/", "d">>, <<"/", "d", "/", "e">>, <<"/", "e">>, <<"/", "d", "e">>}

\* every place a tool call of the model can name
Locations ==
    {normpath(join(r, q)) : r \in Roots \cup Cwds, q \in ToolPaths}

\* os.path.exists(path)
exists(path) ==
    LET loc == normpath(path)
    IN  \/ loc \in Dirs
        \/ (loc \in DOMAIN files /\ ~files[loc].none)

\* os.path.getsize(path), for a path that exists
getsize(path) ==
    LET loc == normpath(path)
    IN  IF loc \in Dirs THEN DirSize ELSE files[loc].value

(***************************************************************************)
(* create_safe_file_tool.safe_wrapper                                      *)
(***************************************************************************)
\* mutant: safe_wrapper without its except clause
safe_wrapper_reraises(tool_class, root_dir, file_path, op_ok) ==
    LET base == [validated |-> FALSE, size_checked |-> FALSE, logged |-> FALSE,
                 executed |-> FALSE, result |-> "ok", raised |-> FALSE]
        full_path == join(root_dir, file_path)
    IN  IF file_path = <<>>
          THEN [base EXCEPT !.result = "ValueError", !.raised = TRUE]
        ELSE IF ~validate_path(security_manager.security_config, file_path, root_dir, cwd)
          THEN [base EXCEPT !.validated = TRUE, !.result = "SecurityError", !.raised = TRUE]
        ELSE IF tool_class = ReadFileTool /\ exists(full_path)
                /\ FILESYSTEM_CONFIG.max_file_size.none
          THEN [base EXCEPT !.validated = TRUE, !.size_checked = TRUE,
                            !.result = "TypeError", !.raised = TRUE]
        ELSE IF tool_class = ReadFileTool /\ exists(full_path)
                /\ getsize(full_path) > FILESYSTEM_CONFIG.max_file_size.value
          THEN [base EXCEPT !.validated = TRUE, !.size_checked = TRUE,
                            !.result = "ResourceError", !.raised = TRUE]
        ELSE [validated |-> TRUE,
              size_checked |-> (tool_class = ReadFileTool /\ exists(full_path)),
              logged |-> TRUE,
              executed |-> TRUE,
              result |-> IF op_ok THEN "ok" ELSE "ToolError",
              raised |-> ~op_ok]

\* What one run of safe_wrapper does, for the tool of class tool_class
\* created with root_dir: which steps it reached and what it returned.
\* op_ok is the outcome of the underlying tool, should it be reached.
\* raised = TRUE would be an exception that leaves the wrapper instead of
\* being returned as "Error: ...".
safe_wrapper(tool_class, root_dir, file_path, op_ok) ==
    LET base == [validated |-> FALSE, size_checked |-> FALSE, logged |-> FALSE,
                 executed |-> FALSE, result |-> "ok", raised |-> FALSE]
        full_path == join(root_dir, file_path)
    IN  IF file_path = <<>>
          THEN [base EXCEPT !.result = "ValueError"]
        ELSE IF ~validate_path(security_manager.security_config, file_path, root_dir, cwd)
          THEN [base EXCEPT !.validated = TRUE, !.result = "SecurityError"]
        ELSE IF tool_class = ReadFileTool /\ exists(full_path)
                /\ FILESYSTEM_CONFIG.max_file_size.none
          THEN [base EXCEPT !.validated = TRUE, !.size_checked = TRUE,
                            !.result = "TypeError"]
        ELSE IF tool_class = ReadFileTool /\ exists(full_path)
                /\ getsize(full_path) > FILESYSTEM_CONFIG.max_file_size.value
          THEN [base EXCEPT !.validated = TRUE, !.size_checked = TRUE,
                            !.result = "ResourceError"]
        ELSE [validated |-> TRUE,
              size_checked |-> (tool_class = ReadFileTool /\ exists(full_path)),
              logged |-> TRUE,
              executed |-> TRUE,
              result |-> IF op_ok THEN "ok" ELSE "ToolError",
              raised |-> FALSE]

IsError(result) == result # "ok"

(***************************************************************************)
(* get_filesystem_tools and get_all_tools                                  *)
(***************************************************************************)
\* a tool object: its name, the class of file operation it performs
\* (NoClass for a tool that touches no file), its root_dir, and whether its
\* call goes through safe_wrapper
NoClass == <<>>
MkTool(name, class, root_dir, sandboxed) ==
    [name |-> name, class |-> class, root_dir |-> root_dir, sandboxed |-> sandboxed]

RECURSIVE ToolsFor(_, _)
\* the loop over allowed_operations
ToolsFor(allowed_operations, root_dir) ==
    IF Len(allowed_operations) = 0 THEN <<>>
    ELSE LET operation == Head(allowed_operations)
             rest == ToolsFor(Tail(allowed_operations), root_dir)
         IN  IF operation \in DOMAIN operations_map
             THEN <<MkTool(operation, operations_map[operation], SomeList(root_dir), FALSE)>>
                  \o rest
             ELSE rest

\* get_filesystem_tools(root_dir, allowed_operations); NoneList for an omitted argument
get_filesystem_tools(root_dir, allowed_operations) ==
    IF ~FILESYSTEM_CONFIG.security.enable_security
    THEN <<MkTool("read", ReadFileTool, NoneList, FALSE),
           MkTool("write", WriteFileTool, NoneList, FALSE),
           MkTool("list", ListDirectoryTool, NoneList, FALSE),
           MkTool("search", FileSearchTool, NoneList, FALSE)>>
    ELSE LET root == IF ~root_dir.none /\ root_dir.items # <<>> THEN root_dir.items
                     ELSE IF ~FILESYSTEM_CONFIG.root_dir.none
                             /\ FILESYSTEM_CONFIG.root_dir.items # <<>>
                          THEN FILESYSTEM_CONFIG.root_dir.items
                     ELSE cwd
             ops == IF ~allowed_operations.none /\ allowed_operations.items # <<>>
                    THEN allowed_operations.items
                    ELSE FILESYSTEM_CONFIG.allowed_operations
         IN  ToolsFor(ops, root)

\* ENABLED_TOOLS of config.settings, and a deployment that enables every tool
EnabledDefault ==
    [calculator |-> FALSE, file_reader |-> FALSE, wikipedia |-> FALSE,
     llm_math |-> FALSE, file_writer |-> FALSE, filesystem |-> TRUE]
EnabledAll ==
    [calculator |-> TRUE, file_reader |-> TRUE, wikipedia |-> TRUE,
     llm_math |-> TRUE, file_writer |-> TRUE, filesystem |-> TRUE]
EnabledToolSets == {EnabledDefault, EnabledAll}

\* get_all_tools(llm)
get_all_tools(ENABLED_TOOLS) ==
    (IF ENABLED_TOOLS.calculator THEN <<MkTool("Calculator", NoClass, NoneList, FALSE)>> ELSE <<>>)
    \o (IF ENABLED_TOOLS.file_reader
        THEN <<MkTool("FileReader", ReadFileTool, NoneList, FALSE)>> ELSE <<>>)
    \o (IF ENABLED_TOOLS.file_writer
        THEN <<MkTool("FileWriter", WriteFileTool, NoneList, FALSE)>> ELSE <<>>)
    \o (IF ENABLED_TOOLS.wikipedia THEN <<MkTool("Wikipedia", NoClass, NoneList, FALSE)>> ELSE <<>>)
    \o (IF ENABLED_TOOLS.llm_math THEN <<MkTool("LLMMath", NoClass, NoneList, FALSE)>> ELSE <<>>)
    \o (IF ENABLED_TOOLS.filesystem
        THEN get_filesystem_tools(FILESYSTEM_CONFIG.root_dir, NoneList) ELSE <<>>)

\* the result slot of a call: called = FALSE until the call has returned
NotCalled == [called |-> FALSE, value |-> FALSE]
Returned(b) == [called |-> TRUE, value |-> b]

NoCall ==
    [via |-> "none", class |-> NoClass, root_dir |-> <<>>, path |-> <<>>, payload |-> 0,
     request_size |-> 0, validated |-> FALSE, size_checked |-> FALSE, logged |-> FALSE,
     executed |-> FALSE, result |-> "ok", raised |-> FALSE, moved |-> 0]

\* LimitedChatMessageHistory.__init__(max_messages)
LimitedChatMessageHistory(max_messages) ==
    [messages |-> <<>>, max_messages |-> max_messages]

\* the parts of the state a specification does not exercise
ValidateIdle ==
    /\ vp = [path |-> <<>>, root_dir |-> RootData, cwd |-> CwdInside,
             security_config |-> [validate_paths |-> Flag(FALSE),
                                  restricted_patterns |-> <<>>,
                                  allowed_extensions |-> NoneList,
                                  monitor_operations |-> TRUE,
                                  log_all_operations |-> FALSE,
                                  enable_security |-> TRUE]]
    /\ vp_result = [method |-> NotCalled, function |-> NotCalled]

RingIdle ==
    /\ history = LimitedChatMessageHistory(1)
    /\ added = <<>>

SandboxIdle ==
    /\ FILESYSTEM_CONFIG = [root_dir |-> NoneList,
                            allowed_operations |-> <<"read", "write", "list", "search">>,
                            max_file_size |-> NoneInt,
                            security |-> [validate_paths |-> Flag(FALSE),
                                          restricted_patterns |-> <<>>,
                                          allowed_extensions |-> NoneList,
                                          monitor_operations |-> FALSE,
                                          log_all_operations |-> FALSE,
                                          enable_security |-> FALSE]]
    /\ cwd = CwdInside
    /\ security_manager = [config |-> FILESYSTEM_CONFIG,
                            security_config |-> FILESYSTEM_CONFIG.security,
                            metrics |-> NoMetrics]
    /\ files = [l \in {LocSmall} |-> NoneInt]
    /\ agent = [initialized |-> FALSE, tools |-> <<>>]
    /\ call = NoCall
    /\ stats = [wrapped |-> 0, direct |-> 0, errors |-> 0]

LedgerIdle ==
    /\ ledger = NoMetrics
    /\ reported = <<>>
    /\ snapshots = <<>>

MemoryIdle ==
    /\ memory = [class |-> "ConversationBufferMemory",
                 chat_memory |-> [class |-> "ChatMessageHistory", messages |-> <<>>,
                                  max_messages |-> 0],
                 buffer |-> <<>>]
    /\ session = [memory_config |-> [memory_type |-> "buffer", max_messages |-> 0],
                  turns |-> <<>>, last |-> "none", output |-> "none", cause |-> "none",
                  failures |-> 0, surfaced |-> 0, runs |-> 0, alive |-> FALSE]

RunIdle ==
    executor = [env |-> "none", status |-> "Idle", iterations |-> 0, time_elapsed |-> 0,
                tool_runs |-> 0, model_calls |-> 0, stopped |-> FALSE]

ToolsetIdle ==
    toolset = [root_dir |-> NoneList, allowed_operations |-> NoneList,
               returned |-> FALSE, tools |-> <<>>]

ConsoleIdle ==
    console = [verbose_level |-> "QUIET", agent_verbose |-> FALSE, commands |-> <<>>,
               before |-> "QUIET", returned |-> FALSE]

WriterIdle ==
    /\ disk = [directory |-> "missing", file |-> NoneList, file_writable |-> FALSE,
               temp_files |-> 0]
    /\ writer = [operation |-> "none", success |-> FALSE, before |-> disk, count |-> 0]

(***************************************************************************)
(* Path validation as a pure function: SpecValidate                        *)
(***************************************************************************)
InitValidate ==
    /\ vp \in [path : Paths, root_dir : Roots, cwd : Cwds,
               security_config : SecurityConfigs]
    /\ vp_result = [method |-> NotCalled, function |-> NotCalled]
    /\ SandboxIdle
    /\ RingIdle
    /\ LedgerIdle
    /\ MemoryIdle
    /\ RunIdle
    /\ ToolsetIdle
    /\ ConsoleIdle
    /\ WriterIdle

\* security.validate_path(path, root_dir)
ValidateMethod ==
    /\ ~vp_result.method.called
    /\ vp_result' = [vp_result EXCEPT !.method =
                        Returned(validate_path(vp.security_config, vp.path, vp.root_dir, vp.cwd))]
    /\ UNCHANGED <<vp, sandboxVars, ringVars, ledgerVars, memoryVars, runVars,
                   toolsetVars, consoleVars, writerVars>>

\* validate_path(path, root_dir)
ValidateFunction ==
    /\ ~vp_result.function.called
    /\ vp_result' = [vp_result EXCEPT !.function =
                        Returned(validate_path_function(vp.path, vp.root_dir, vp.cwd))]
    /\ UNCHANGED <<vp, sandboxVars, ringVars, ledgerVars, memoryVars, runVars,
                   toolsetVars, consoleVars, writerVars>>

NextValidate ==
    \/ ValidateMethod
    \/ ValidateFunction

SpecValidate == InitValidate /\ [][NextValidate]_vars

(***************************************************************************)
(* The sandbox and the agent's tools: Spec                                 *)
(***************************************************************************)
\* create_safe_file_tool(tool_class, root_dir, security_manager)
create_safe_file_tool(tool_class, root_dir) ==
    MkTool("safe", tool_class, SomeList(root_dir), TRUE)

\* FILESYSTEM_CONFIG as a deployment may set it
MkConfig(max_file_size, enable_security, validate_paths, patterns, extensions, monitor) ==
    [root_dir |-> SomeList(RootData),
     allowed_operations |-> <<"read", "write", "list", "search">>,
     max_file_size |-> max_file_size,
     security |-> [validate_paths |-> validate_paths,
                   restricted_patterns |-> patterns,
                   allowed_extensions |-> extensions,
                   monitor_operations |-> monitor,
                   log_all_operations |-> FALSE,
                   enable_security |-> enable_security]]

\* security on, every check configured, size limit set, metrics on
ConfigStrict ==
    MkConfig(SomeInt(SizeLimit), TRUE, Flag(TRUE), <<PatDotDot, PatTilde>>,
             SomeList(<<ExtE>>), TRUE)
\* security on, path validation without patterns or extensions, no size limit
ConfigBasic == MkConfig(NoneInt, TRUE, AbsentFlag, <<>>, NoneList, TRUE)
\* security on, validate_paths off
ConfigNoValidation ==
    MkConfig(SomeInt(SizeLimit), TRUE, Flag(FALSE), <<PatDotDot, PatTilde>>,
             SomeList(<<ExtE>>), TRUE)
\* the master switch off while validate_paths and the size limit are set
ConfigSwitchOff ==
    MkConfig(SomeInt(SizeLimit), FALSE, Flag(TRUE), <<>>, NoneList, TRUE)
\* the defaults of config.settings: everything off, no metrics
ConfigDevelopment == MkConfig(NoneInt, FALSE, Flag(FALSE), <<>>, NoneList, FALSE)

FilesystemConfigs ==
    {ConfigStrict, ConfigBasic, ConfigNoValidation, ConfigSwitchOff, ConfigDevelopment}

InitialFiles ==
    [l \in Locations |->
        IF l = LocSmall THEN SomeInt(SmallSize)
        ELSE IF l = LocBig THEN SomeInt(BigSize)
        ELSE NoneInt]

Init ==
    /\ FILESYSTEM_CONFIG \in FilesystemConfigs
    /\ cwd \in Cwds
    /\ security_manager = FileSystemSecurity(FILESYSTEM_CONFIG)
    /\ files = InitialFiles
    /\ agent = [initialized |-> FALSE, tools |-> <<>>]
    /\ call = NoCall
    /\ stats = [wrapped |-> 0, direct |-> 0, errors |-> 0]
    /\ ValidateIdle
    /\ RingIdle
    /\ LedgerIdle
    /\ MemoryIdle
    /\ RunIdle
    /\ ToolsetIdle
    /\ ConsoleIdle
    /\ WriterIdle

\* BedrockAgent.setup_tools: self.tools = get_all_tools(self.llm)
setup_tools ==
    /\ ~agent.initialized
    /\ \E ENABLED_TOOLS \in EnabledToolSets :
           agent' = [initialized |-> TRUE, tools |-> get_all_tools(ENABLED_TOOLS)]
    /\ UNCHANGED <<FILESYSTEM_CONFIG, cwd, security_manager, files, call, stats,
                   vpVars, ringVars, ledgerVars, memoryVars, runVars,
                   toolsetVars, consoleVars, writerVars>>

\* where the underlying tool acts: root_dir / file_path, or the path itself
\* for a tool without root_dir
ToolLocation(tool, file_path) ==
    IF tool.root_dir.none THEN abspath(file_path, cwd)
    ELSE normpath(join(tool.root_dir.items, file_path))

PayloadSizes(tool_class) ==
    IF tool_class = WriteFileTool THEN {SmallSize, BigSize} ELSE {0}

\* the outcomes the underlying tool can have: a read succeeds only on an
\* existing file, a write only where there is no directory
CanSucceed(tool, file_path) ==
    LET loc == ToolLocation(tool, file_path)
    IN  /\ loc \in DOMAIN files
        /\ tool.class = ReadFileTool => (loc \notin Dirs /\ ~files[loc].none)
        /\ tool.class = WriteFileTool => loc \notin Dirs

\* One call of a tool object: through safe_wrapper when the tool was made by
\* create_safe_file_tool, straight to the underlying tool otherwise.
ToolCall(via, tool, file_path, payload, op_ok) ==
    /\ stats.wrapped + stats.direct < MaxCalls
    /\ op_ok => CanSucceed(tool, file_path)
    /\ \E root \in {IF tool.root_dir.none THEN <<>> ELSE tool.root_dir.items} :
       \E run \in {IF tool.sandboxed
                   THEN safe_wrapper(tool.class, root, file_path, op_ok)
                   ELSE [validated |-> FALSE, size_checked |-> FALSE, logged |-> FALSE,
                         executed |-> TRUE, result |-> IF op_ok THEN "ok" ELSE "ToolError",
                         raised |-> FALSE]} :
       \E measured \in {IF tool.class = ReadFileTool /\ exists(join(root, file_path))
                        THEN getsize(join(root, file_path)) ELSE 0} :
          /\ security_manager' =
                IF run.logged
                THEN log_operation(security_manager, operation_type(tool.class), file_path)
                ELSE security_manager
          /\ call' = [via |-> via, class |-> tool.class, root_dir |-> root,
                      path |-> file_path, payload |-> payload,
                      request_size |-> IF tool.class = WriteFileTool THEN payload
                                       ELSE measured,
                      validated |-> run.validated, size_checked |-> run.size_checked,
                      logged |-> run.logged, executed |-> run.executed,
                      result |-> run.result, raised |-> run.raised,
                      moved |-> IF ~(run.executed /\ run.result = "ok") THEN 0
                                ELSE IF tool.class = WriteFileTool THEN payload
                                ELSE IF tool.class = ReadFileTool
                                     THEN files[ToolLocation(tool, file_path)].value
                                ELSE 0]
          /\ stats' = [wrapped |-> stats.wrapped + (IF tool.sandboxed THEN 1 ELSE 0),
                       direct |-> stats.direct + (IF tool.sandboxed THEN 0 ELSE 1),
                       errors |-> stats.errors
                                  + (IF tool.sandboxed /\ IsError(run.result) THEN 1 ELSE 0)]
          /\ UNCHANGED <<FILESYSTEM_CONFIG, cwd, files, agent, vpVars, ringVars,
                         ledgerVars, memoryVars, runVars,
                   toolsetVars, consoleVars, writerVars>>

\* a call of a tool returned by create_safe_file_tool
SafeWrapperCall ==
    \E tool_class \in ToolClasses, root_dir \in SandboxRoots, file_path \in ToolPaths,
       op_ok \in BOOLEAN :
        \E payload \in PayloadSizes(tool_class) :
            ToolCall("wrapper", create_safe_file_tool(tool_class, root_dir),
                     file_path, payload, op_ok)

\* the agent calls one of its file tools (AgentExecutor, tools=self.tools)
AgentToolCall ==
    /\ agent.initialized
    /\ \E i \in 1..Len(agent.tools), file_path \in ToolPaths, op_ok \in BOOLEAN :
        /\ agent.tools[i].class # NoClass
        /\ \E payload \in PayloadSizes(agent.tools[i].class) :
               ToolCall("agent", agent.tools[i], file_path, payload, op_ok)

\* calls through the sandbox
Next ==
    \/ SafeWrapperCall

Spec == Init /\ [][Next]_vars

\* the agent and the tools it is given
NextAgent ==
    \/ setup_tools
    \/ AgentToolCall

SpecAgent == Init /\ [][NextAgent]_vars

(***************************************************************************)
(* The ring history: SpecRing                                              *)
(***************************************************************************)
Min(a, b) == IF a < b THEN a ELSE b
Max(a, b) == IF a > b THEN a ELSE b

\* the Python slice s[i:]
SliceFrom(s, i) ==
    LET lo == IF i < 0 THEN Max(Len(s) + i, 0) ELSE Min(i, Len(s))
    IN  SubSeq(s, lo + 1, Len(s))

\* HumanMessage and AIMessage, as add_user_message and add_ai_message make them
Messages == {"HumanMessage", "AIMessage"}

InitRing ==
    /\ \E max_messages \in 0..MaxCapacity :
           history = LimitedChatMessageHistory(max_messages)
    /\ added = <<>>
    /\ ValidateIdle
    /\ SandboxIdle
    /\ LedgerIdle
    /\ MemoryIdle
    /\ RunIdle
    /\ ToolsetIdle
    /\ ConsoleIdle
    /\ WriterIdle

\* LimitedChatMessageHistory.add_message(message)
add_message ==
    /\ Len(added) < MaxAdds
    /\ \E message \in Messages :
        /\ history' =
              LET appended == Append(history.messages, message)
              IN  [history EXCEPT !.messages =
                      IF Len(appended) > history.max_messages
                      THEN SliceFrom(appended, -history.max_messages)
                      ELSE appended]
        /\ added' = Append(added, message)
    /\ UNCHANGED <<vpVars, sandboxVars, ledgerVars, memoryVars, runVars,
                   toolsetVars, consoleVars, writerVars>>

\* LimitedChatMessageHistory.clear()
clear ==
    /\ history' = [history EXCEPT !.messages = <<>>]
    /\ added' = <<>>
    /\ UNCHANGED <<vpVars, sandboxVars, ledgerVars, memoryVars, runVars,
                   toolsetVars, consoleVars, writerVars>>

NextRing ==
    \/ add_message
    \/ clear

SpecRing == InitRing /\ [][NextRing]_vars

(***************************************************************************)
(* Properties of path validation (checked under SpecValidate)              *)
(***************************************************************************)
\* abs_path is abs_root itself or lies below it: the containment test on
\* separator-terminated paths
IsWithinRoot(abs_path, abs_root) ==
    \/ abs_path = abs_root
    \/ StartsWith(abs_path,
                  IF EndsWith(abs_root, <<"/">>) THEN abs_root ELSE abs_root \o <<"/">>)

vp_outside_root ==
    ~IsWithinRoot(abspath(vp.path, vp.cwd), abspath(vp.root_dir, vp.cwd))

vp_has_restricted_pattern ==
    \E pattern \in Elems(vp.security_config.restricted_patterns) :
        Contains(vp.path, pattern)

\* C2: with validate_paths enabled, every path whose normalized absolute form
\* is neither the normalized root nor a descendant of it is denied, by
\* FileSystemSecurity.validate_path and by the module-level validate_path; a
\* sibling such as /de against root /d is denied.
C2_OutsideRootDenied ==
    /\ (/\ vp_result.method.called
        /\ validate_paths_enabled(vp.security_config)
        /\ vp_outside_root) => ~vp_result.method.value
    /\ (vp_result.function.called /\ vp_outside_root) => ~vp_result.function.value

\* C4: with validate_paths enabled, a path whose original string contains one
\* of the restricted patterns is denied, also when its normalized form lies
\* inside the root; /d/../e/p under root /d with patterns {'..', '~'} is denied.
C4_RestrictedPatternDenied ==
    /\ (/\ vp_result.method.called
        /\ validate_paths_enabled(vp.security_config)
        /\ vp_has_restricted_pattern) => ~vp_result.method.value
    /\ (/\ vp_result.method.called
        /\ validate_paths_enabled(vp.security_config)
        /\ vp.path = PathScenarioA
        /\ vp.root_dir = RootData
        /\ vp.security_config.restricted_patterns = <<PatDotDot, PatTilde>>)
           => ~vp_result.method.value

\* a path inside the root once normalized, holding '..', has been denied
C4_Witness ==
    /\ vp_result.method.called
    /\ validate_paths_enabled(vp.security_config)
    /\ vp.path = PathDotDotInside
    /\ ~vp_outside_root
    /\ vp_has_restricted_pattern
    /\ ~has_allowed_extensions(vp.security_config)
    /\ ~vp_result.method.value

\* C6: when validate_paths is false, FileSystemSecurity.validate_path succeeds
\* for every path and every root, whatever the patterns and extensions are.
C6_ValidationOffAlwaysSucceeds ==
    (/\ vp_result.method.called
     /\ vp.security_config.validate_paths = Flag(FALSE)) => vp_result.method.value

\* a path outside the root, holding '..' and without an allowed extension,
\* has been accepted with validate_paths false
C6_Witness ==
    /\ vp_result.method.called
    /\ vp.security_config.validate_paths = Flag(FALSE)
    /\ vp.path = PathScenarioA
    /\ vp_outside_root
    /\ vp_has_restricted_pattern
    /\ has_allowed_extensions(vp.security_config)
    /\ lower(splitext_ext(vp.path)) \notin Elems(vp.security_config.allowed_extensions.items)
    /\ vp_result.method.value

\* the path lies strictly below the root once both are made absolute
vp_descendant_of_root ==
    /\ ~vp_outside_root
    /\ abspath(vp.path, vp.cwd) # abspath(vp.root_dir, vp.cwd)

\* the extension of the path, letter case put aside
vp_extension == lower(splitext_ext(vp.path))

\* allowed_extensions is None or []
vp_extensions_unset ==
    \/ vp.security_config.allowed_extensions.none
    \/ vp.security_config.allowed_extensions.items = <<>>

C16_ExtensionCheck ==
    /\ (/\ vp_result.method.called
        /\ validate_paths_enabled(vp.security_config)
        /\ ~vp_extensions_unset
        /\ vp_extension \notin Elems(vp.security_config.allowed_extensions.items))
           => ~vp_result.method.value
    /\ (/\ vp_result.method.called
        /\ validate_paths_enabled(vp.security_config)
        /\ vp_extensions_unset
        /\ ~vp_result.method.value)
           => \/ ~StartsWith(abspath(vp.path, vp.cwd), abspath(vp.root_dir, vp.cwd))
              \/ vp_has_restricted_pattern

\* a file below the root, free of patterns, was denied for its extension alone
C16_Witness ==
    /\ vp_result.method.called
    /\ validate_paths_enabled(vp.security_config)
    /\ vp.path = PathBadExt
    /\ vp_descendant_of_root
    /\ ~vp_has_restricted_pattern
    /\ vp.security_config.allowed_extensions = SomeList(<<ExtE>>)
    /\ ~vp_result.method.value

\* C17: with validate_paths enabled, the empty path is denied by path
\* validation, for every root and every working directory.
C17_EmptyPathDenied ==
    /\ (/\ vp_result.method.called
        /\ validate_paths_enabled(vp.security_config)
        /\ vp.path = <<>>) => ~vp_result.method.value
    /\ (vp_result.function.called /\ vp.path = <<>>) => ~vp_result.function.value

\* C18: with validate_paths enabled, a path equal to the root directory is
\* allowed, for every policy whose restricted patterns do not occur in it and
\* for every setting of allowed_extensions.
C18_RootItselfAllowed ==
    (/\ vp_result.method.called
     /\ validate_paths_enabled(vp.security_config)
     /\ vp.path = vp.root_dir
     /\ ~vp_has_restricted_pattern)
        => vp_result.method.value

(***************************************************************************)
(* Properties of the sandbox (checked under Spec and SpecAgent)            *)
(***************************************************************************)
call_outside_root ==
    ~IsWithinRoot(abspath(call.path, cwd), abspath(call.root_dir, cwd))

\* C1: with enable_security and validate_paths on, no call through
\* safe_wrapper invokes the underlying tool for a path whose normalized
\* absolute form lies outside root_dir; such a call returns an error.
C1_OutsideRootNeverExecuted ==
    (/\ call.via = "wrapper"
     /\ FILESYSTEM_CONFIG.security.enable_security
     /\ validate_paths_enabled(security_manager.security_config)
     /\ call_outside_root)
        => (~call.executed /\ IsError(call.result))

\* C3: with security enabled, every file tool handed to the agent acts only
\* through the sandbox: each is wrapped, and each of its calls has had path
\* validation and ledger recording applied.
C3_EveryToolThroughSandbox ==
    FILESYSTEM_CONFIG.security.enable_security =>
        /\ \A i \in 1..Len(agent.tools) :
              agent.tools[i].class # NoClass => agent.tools[i].sandboxed
        /\ (call.via = "agent" /\ call.executed) => (call.validated /\ call.logged)

\* C5: when enable_security is false, a call of a filesystem tool validates
\* no path and checks no size whatever validate_paths is: every path given
\* reaches the underlying tool.
C5_SwitchOffSkipsChecks ==
    (/\ call.via = "wrapper"
     /\ ~FILESYSTEM_CONFIG.security.enable_security
     /\ call.path # <<>>)
        => /\ ~(call.validated /\ validate_paths_enabled(security_manager.security_config))
           /\ ~call.size_checked
           /\ call.executed

RECURSIVE SumOver(_, _)
SumOver(f, keys) ==
    IF keys = {} THEN 0
    ELSE LET k == CHOOSE x \in keys : TRUE
         IN  f[k] + SumOver(f, keys \ {k})

\* sum(operations.values())
SumOperations(metrics) == SumOver(metrics.operations, DOMAIN metrics.operations)

\* C7: with the ledger active, after calls that were allowed, denied by
\* validation, rejected for size or failed in the underlying tool, the sum of
\* the per-kind operation counts equals the number of calls made through
\* safe_wrapper.
C7_CountsEqualCalls ==
    (/\ security_manager.metrics.active
     /\ call.via = "wrapper"
     /\ call.result \in {"ok", "SecurityError", "ResourceError", "ToolError"})
        => SumOperations(security_manager.metrics) = stats.wrapped

\* C8: with the ledger active, a call that ends in a path denial, a size
\* rejection or a failure of the underlying tool is recorded as an error: the
\* ledger's error count equals the number of calls that returned an error.
C8_ErrorsRecorded ==
    (/\ security_manager.metrics.active
     /\ call.via = "wrapper"
     /\ call.result \in {"SecurityError", "ResourceError", "ToolError"})
        => Len(security_manager.metrics.errors) = stats.errors

\* C10: with a size limit set, a request that passed path validation and
\* whose size (the file's for a read, the payload's for a write) exceeds the
\* limit is rejected with a resource error, the underlying tool is not run
\* and no byte is moved; for every kind of operation.
C10_OversizeRejected ==
    (/\ call.via = "wrapper"
     /\ ~FILESYSTEM_CONFIG.max_file_size.none
     /\ call.request_size > FILESYSTEM_CONFIG.max_file_size.value
     /\ call.result \notin {"ValueError", "SecurityError"})
        => (call.result = "ResourceError" /\ ~call.executed /\ call.moved = 0)

\* the last call was a read, through safe_wrapper, of a file that exists
\* under root_dir and whose path passed validation
call_read_existing_file ==
    /\ call.via = "wrapper"
    /\ call.class = ReadFileTool
    /\ call.validated
    /\ call.result # "SecurityError"
    /\ normpath(join(call.root_dir, call.path)) \notin Dirs
    /\ exists(join(call.root_dir, call.path))

\* C11: when max_file_size is None no size is enforced: a read through
\* safe_wrapper of an existing file, of any size, that passed path validation
\* reaches the underlying read and returns what it returned.
C11_NoLimitNoEnforcement ==
    (call_read_existing_file /\ FILESYSTEM_CONFIG.max_file_size.none)
        => (call.executed /\ call.result \in {"ok", "ToolError"})

(***************************************************************************)
(* Properties of the ring history (checked under SpecRing)                 *)
(***************************************************************************)
\* the last n elements of s
LastN(s, n) == SubSeq(s, Len(s) - n + 1, Len(s))

\* C9: after k add_message calls since construction or the last clear, a
\* history of capacity N holds exactly the last min(k, N) added messages in
\* order, so that it never holds more than N messages.
C9_RingHoldsLastN ==
    /\ history.messages = LastN(added, Min(Len(added), history.max_messages))
    /\ Len(history.messages) <= history.max_messages

\* C12: a ring history of capacity below 1 is rejected when it is
\* constructed, so that no history of capacity 0 ever accepts an append.
C12_CapacityBelowOneRejected ==
    ~(history.max_messages < 1 /\ added # <<>>)

(***************************************************************************)
(* The ledger on its own: SpecLedger                                       *)
(***************************************************************************)
\* number of add_error calls in one behaviour
MaxErrors == 4

\* str(error) of the exceptions the tools raise
ErrorTexts == {"SecurityError", "ResourceError"}

\* the operation names handed to record_operation
LedgerOperations == {<<"read">>, <<"write">>, <<"read", "file">>}

\* number of get_metrics results a caller keeps in one behaviour
MaxSnapshots == 2

\* mutant: get_metrics hands out the counters and starts them afresh
get_metrics_resets(m) ==
    [metrics |-> [m EXCEPT !.operations = [k \in DOMAIN m.operations |-> 0],
                           !.total_bytes_processed = 0],
     result |-> [operations |-> [alias |-> TRUE, as_returned |-> m.operations],
                 total_bytes |-> m.total_bytes_processed,
                 error_count |-> Len(m.errors)]]

\* FileSystemMetrics.get_metrics(): the ledger after the call and the
\* dictionary returned.  'operations' is self.operations itself, not a copy
\* (alias = TRUE): as_returned is what it held when get_metrics returned.
get_metrics(m) ==
    [metrics |-> m,
     result |-> [operations |-> [alias |-> TRUE, as_returned |-> m.operations],
                 total_bytes |-> m.total_bytes_processed,
                 error_count |-> Len(m.errors)]]

\* what a caller reads now in a dictionary get_metrics returned earlier: an
\* aliased field shows the ledger's dictionary as it is now
ReadNow(result) ==
    [operations |-> IF result.operations.alias THEN ledger.operations
                    ELSE result.operations.as_returned,
     total_bytes |-> result.total_bytes,
     error_count |-> result.error_count]

\* what the caller read in it when it was returned
ReadThen(result) ==
    [operations |-> result.operations.as_returned,
     total_bytes |-> result.total_bytes,
     error_count |-> result.error_count]

\* one more record_operation / add_error call since each result was returned
Aged(snaps) == [i \in 1..Len(snaps) |-> [snaps[i] EXCEPT !.mutations = @ + 1]]

InitLedger ==
    /\ ledger = NewMetrics
    /\ reported = <<>>
    /\ snapshots = <<>>
    /\ ValidateIdle
    /\ SandboxIdle
    /\ RingIdle
    /\ MemoryIdle
    /\ RunIdle
    /\ ToolsetIdle
    /\ ConsoleIdle
    /\ WriterIdle

\* metrics.record_operation(operation, bytes_processed)
RecordOperation ==
    /\ SumOperations(ledger) < MaxCalls
    /\ \E operation \in LedgerOperations, bytes_processed \in {0, SmallSize} :
           ledger' = record_operation(ledger, operation, bytes_processed)
    /\ snapshots' = Aged(snapshots)
    /\ UNCHANGED <<reported, vpVars, sandboxVars, ringVars, memoryVars, runVars,
                   toolsetVars, consoleVars, writerVars>>

\* metrics.add_error(error)
AddError ==
    /\ Len(reported) < MaxErrors
    /\ \E error \in ErrorTexts :
        /\ ledger' = add_error(ledger, error)
        /\ reported' = Append(reported, error)
    /\ snapshots' = Aged(snapshots)
    /\ UNCHANGED <<vpVars, sandboxVars, ringVars, memoryVars, runVars,
                   toolsetVars, consoleVars, writerVars>>

\* metrics.get_metrics(), its result kept by the caller
GetMetrics ==
    /\ Len(snapshots) < MaxSnapshots
    /\ \E got \in {get_metrics(ledger)} :
        /\ ledger' = got.metrics
        /\ snapshots' = Append(snapshots,
                               [returned |-> got.result, before |-> ledger, mutations |-> 0])
    /\ UNCHANGED <<reported, vpVars, sandboxVars, ringVars, memoryVars, runVars,
                   toolsetVars, consoleVars, writerVars>>

NextLedger ==
    \/ RecordOperation
    \/ AddError
    \/ GetMetrics

SpecLedger == InitLedger /\ [][NextLedger]_vars

\* C14: the ledger's errors never grow beyond a cap fixed at construction;
\* once full, add_error evicts the oldest entry, so that errors holds the
\* most recent errors in order, newest last. Stated for every cap below the
\* number of errors a behaviour adds.
C14_ErrorsCappedFifo ==
    \E cap \in 1..(MaxErrors - 1) :
        ledger.errors = LastN(reported, Min(Len(reported), cap))

(***************************************************************************)
(* The agent's conversation memory: SpecMemory                             *)
(*                                                                         *)
(* setup_memory builds one of three memory objects.  chat_memory holds the *)
(* messages; a ConversationSummaryMemory holds, besides, the rolling       *)
(* summary in its own attribute buffer, which save_context rewrites after  *)
(* it has appended the turn.  The summary is kept as the messages it       *)
(* covers.                                                                 *)
(***************************************************************************)
\* number of agent.run calls, and of messages appended, in one behaviour
MaxRuns == 2
MaxTurns == 4

\* memory_config dictionaries
MemoryConfigs ==
    [memory_type : {"buffer", "limited", "summary"}, max_messages : 1..MaxCapacity]

\* the default chat_memory of a langchain memory: an unbounded message list
ChatMessageHistory ==
    [class |-> "ChatMessageHistory", messages |-> <<>>, max_messages |-> 0]

\* BedrockAgent.setup_memory
setup_memory(memory_config) ==
    IF memory_config.memory_type = "limited"
    THEN LET message_history == LimitedChatMessageHistory(memory_config.max_messages)
         IN  [class |-> "ConversationBufferMemory",
              chat_memory |-> [class |-> "LimitedChatMessageHistory",
                               messages |-> message_history.messages,
                               max_messages |-> message_history.max_messages],
              buffer |-> <<>>]
    ELSE IF memory_config.memory_type = "summary"
    THEN [class |-> "ConversationSummaryMemory", chat_memory |-> ChatMessageHistory,
          buffer |-> <<>>]
    ELSE [class |-> "ConversationBufferMemory", chat_memory |-> ChatMessageHistory,
          buffer |-> <<>>]

\* memory.chat_memory.add_message(message)
chat_add_message(chat_memory, message) ==
    LET appended == Append(chat_memory.messages, message)
    IN  [chat_memory EXCEPT !.messages =
            IF /\ chat_memory.class = "LimitedChatMessageHistory"
               /\ Len(appended) > chat_memory.max_messages
            THEN SliceFrom(appended, -chat_memory.max_messages)
            ELSE appended]

\* memory.save_context(inputs, outputs), called by the executor when invoke
\* has an answer: the turn is appended, then a summary memory asks the
\* summarizer for the new summary; summarized = FALSE when that call raised
save_context(mem, summarized) ==
    LET with_input == chat_add_message(mem.chat_memory, "HumanMessage")
        with_both == chat_add_message(with_input, "AIMessage")
    IN  [mem EXCEPT !.chat_memory = with_both,
                    !.buffer = IF mem.class = "ConversationSummaryMemory" /\ summarized
                               THEN mem.buffer \o <<"HumanMessage", "AIMessage">>
                               ELSE mem.buffer]

InitMemory ==
    /\ \E memory_config \in MemoryConfigs :
        /\ memory = setup_memory(memory_config)
        /\ session = [memory_config |-> memory_config, turns |-> <<>>, last |-> "none",
                      output |-> "none", cause |-> "none", failures |-> 0, surfaced |-> 0,
                      runs |-> 0, alive |-> TRUE]
    /\ ValidateIdle
    /\ SandboxIdle
    /\ RingIdle
    /\ LedgerIdle
    /\ RunIdle
    /\ ToolsetIdle
    /\ ConsoleIdle
    /\ WriterIdle

\* the body shared by add_user_message and add_ai_message
AppendMessage(message) ==
    /\ session.alive
    /\ Len(session.turns) < MaxTurns
    /\ memory' = [memory EXCEPT !.chat_memory = chat_add_message(memory.chat_memory, message)]
    /\ session' = [session EXCEPT !.turns = Append(session.turns, message),
                                  !.last = "add", !.cause = "none"]
    /\ UNCHANGED <<vpVars, sandboxVars, ringVars, ledgerVars, runVars,
                   toolsetVars, consoleVars, writerVars>>

\* BedrockAgent.add_user_message(message)
add_user_message == AppendMessage("HumanMessage")

\* BedrockAgent.add_ai_message(message)
add_ai_message == AppendMessage("AIMessage")

\* BedrockAgent.clear_history(): self.memory.chat_memory.clear()
clear_history ==
    /\ session.alive
    /\ memory' = [memory EXCEPT !.chat_memory.messages = <<>>]
    /\ session' = [session EXCEPT !.turns = <<>>, !.last = "clear", !.cause = "none"]
    /\ UNCHANGED <<vpVars, sandboxVars, ringVars, ledgerVars, runVars,
                   toolsetVars, consoleVars, writerVars>>

\* BedrockAgent.run(query): self.agent.invoke inside try/except.  invoke
\* either answers and saves the turn, or raises before the turn is saved, or
\* raises from the summarizer after the turn was appended.  handled = FALSE
\* is a run whose exception escapes to the caller.
run_query(handled) ==
    /\ session.alive
    /\ session.runs < MaxRuns
    /\ Len(session.turns) + 2 <= MaxTurns
    /\ \E outcome \in {"answered", "invoke_error", "summarizer_error"} :
        /\ outcome = "summarizer_error" => memory.class = "ConversationSummaryMemory"
        /\ memory' = IF outcome = "invoke_error" THEN memory
                     ELSE save_context(memory, outcome = "answered")
        /\ session' =
              [session EXCEPT
                  !.turns = IF outcome = "invoke_error" THEN @
                            ELSE @ \o <<"HumanMessage", "AIMessage">>,
                  !.last = "run",
                  !.cause = outcome,
                  !.output = IF outcome = "answered" THEN "ok"
                             ELSE IF handled THEN "Error" ELSE "raised",
                  !.failures = @ + (IF outcome = "summarizer_error" THEN 1 ELSE 0),
                  !.surfaced = @ + (IF outcome = "summarizer_error" /\ handled THEN 1 ELSE 0),
                  !.runs = @ + 1,
                  !.alive = (outcome = "answered" \/ handled)]
    /\ UNCHANGED <<vpVars, sandboxVars, ringVars, ledgerVars, runVars,
                   toolsetVars, consoleVars, writerVars>>

\* mutant: run without its except clause
run_reraises == run_query(FALSE)

\* BedrockAgent.run(query)
run == run_query(TRUE)

NextMemory ==
    \/ add_user_message
    \/ add_ai_message
    \/ clear_history
    \/ run

SpecMemory == InitMemory /\ [][NextMemory]_vars

\* C13: clear returns the history to its empty initial state for every
\* memory strategy: right after clear_history the memory is as setup_memory
\* built it, with no stored message and no rolling summary.
C13_ClearResetsToInitial ==
    session.last = "clear" => memory = setup_memory(session.memory_config)

MaxModelCalls == 20

\* seconds one iteration (model call and tool) can take
StepSeconds == {0, 7}

\* the values of the ENV environment variable; "staging" is not a key of
\* AGENT_ENV_CONFIGS
Environments == {"development", "production", "testing", "staging"}

\* AGENT_ENV_CONFIGS of config.settings
AGENT_ENV_CONFIGS ==
    [e \in {"development", "production", "testing"} |->
        CASE e = "development" ->
                [max_iterations |-> SomeInt(15), max_execution_time |-> NoneInt,
                 early_stopping_method |-> "generate", handle_parsing_errors |-> TRUE]
          [] e = "production" ->
                [max_iterations |-> SomeInt(10), max_execution_time |-> SomeInt(30),
                 early_stopping_method |-> "force", handle_parsing_errors |-> TRUE]
          [] e = "testing" ->
                [max_iterations |-> SomeInt(5), max_execution_time |-> SomeInt(10),
                 early_stopping_method |-> "force", handle_parsing_errors |-> TRUE]]

\* AGENT_CONFIG = AGENT_ENV_CONFIGS.get(ENVIRONMENT, AGENT_ENV_CONFIGS['development'])
AGENT_CONFIG(ENVIRONMENT) ==
    IF ENVIRONMENT \in DOMAIN AGENT_ENV_CONFIGS THEN AGENT_ENV_CONFIGS[ENVIRONMENT]
    ELSE AGENT_ENV_CONFIGS["development"]

\* mutant: the executor is built without max_iterations
AgentExecutor_unbounded(config) ==
    [max_iterations |-> NoneInt,
     max_execution_time |-> config.max_execution_time,
     early_stopping_method |-> config.early_stopping_method,
     handle_parsing_errors |-> config.handle_parsing_errors]

\* the limits given to AgentExecutor(...) by initialize_agent
AgentExecutor(config) ==
    [max_iterations |-> config.max_iterations,
     max_execution_time |-> config.max_execution_time,
     early_stopping_method |-> config.early_stopping_method,
     handle_parsing_errors |-> config.handle_parsing_errors]

\* the test at the head of the executor's loop
should_continue(limits, iterations, time_elapsed) ==
    /\ limits.max_iterations.none \/ iterations < limits.max_iterations.value
    /\ limits.max_execution_time.none \/ time_elapsed < limits.max_execution_time.value

\* the end of one iteration: count it, read the clock, test the limits
EndIteration(ex, seconds) ==
    LET limits == AgentExecutor(AGENT_CONFIG(ex.env))
        iterations == ex.iterations + 1
        time_elapsed == ex.time_elapsed + seconds
    IN  [ex EXCEPT !.iterations = iterations,
                   !.time_elapsed = time_elapsed,
                   !.status = IF should_continue(limits, iterations, time_elapsed)
                              THEN "AwaitingModel" ELSE "LimitReached"]

InitRun ==
    /\ \E ENVIRONMENT \in Environments :
           executor = [env |-> ENVIRONMENT, status |-> "Idle", iterations |-> 0,
                       time_elapsed |-> 0, tool_runs |-> 0, model_calls |-> 0,
                       stopped |-> FALSE]
    /\ ValidateIdle
    /\ SandboxIdle
    /\ RingIdle
    /\ LedgerIdle
    /\ MemoryIdle
    /\ ToolsetIdle
    /\ ConsoleIdle
    /\ WriterIdle

\* BedrockAgent.run: self.agent.invoke({"input": query})
invoke ==
    /\ executor.status = "Idle"
    /\ executor' = [executor EXCEPT !.status =
                       IF should_continue(AgentExecutor(AGENT_CONFIG(executor.env)), 0, 0)
                       THEN "AwaitingModel" ELSE "LimitReached"]
    /\ UNCHANGED <<vpVars, sandboxVars, ringVars, ledgerVars, memoryVars,
                   toolsetVars, consoleVars, writerVars>>

\* the model is asked for the next step: it answers, names a tool, returns
\* text that cannot be parsed (handle_parsing_errors feeds it back as an
\* observation and the iteration counts), or the call raises
plan ==
    /\ executor.status = "AwaitingModel"
    /\ executor.model_calls < MaxModelCalls
    /\ \E response \in {"finish", "action", "unparsable", "raise"}, seconds \in StepSeconds :
        LET asked == [executor EXCEPT !.model_calls = @ + 1]
        IN  executor' =
              CASE response = "finish" -> [asked EXCEPT !.status = "Done"]
                [] response = "action" -> [asked EXCEPT !.status = "ExecutingTool"]
                [] response = "unparsable" -> EndIteration(asked, seconds)
                [] response = "raise" -> [asked EXCEPT !.status = "Failed"]
    /\ UNCHANGED <<vpVars, sandboxVars, ringVars, ledgerVars, memoryVars,
                   toolsetVars, consoleVars, writerVars>>

\* the tool the model named is run and its observation kept
perform_agent_action ==
    /\ executor.status = "ExecutingTool"
    /\ \E seconds \in StepSeconds :
           executor' = EndIteration([executor EXCEPT !.tool_runs = @ + 1], seconds)
    /\ UNCHANGED <<vpVars, sandboxVars, ringVars, ledgerVars, memoryVars,
                   toolsetVars, consoleVars, writerVars>>

\* a limit ended the loop: early_stopping_method 'force' returns the fixed
\* stop message, 'generate' asks the model once more for a final answer
return_stopped_response ==
    /\ executor.status = "LimitReached"
    /\ executor' =
          [executor EXCEPT
              !.status = "Failed",
              !.stopped = TRUE,
              !.model_calls =
                  @ + (IF AgentExecutor(AGENT_CONFIG(executor.env)).early_stopping_method
                          = "generate" THEN 1 ELSE 0)]
    /\ UNCHANGED <<vpVars, sandboxVars, ringVars, ledgerVars, memoryVars,
                   toolsetVars, consoleVars, writerVars>>

NextRun ==
    \/ invoke
    \/ plan
    \/ perform_agent_action
    \/ return_stopped_response

\* the calls the executor waits for (model, tool) return, so the loop goes on
SpecRun == InitRun /\ [][NextRun]_vars /\ WF_vars(NextRun)

\* the limits of the executor that is running
run_limits == AgentExecutor(AGENT_CONFIG(executor.env))

\* the loop is at a point where the model or a tool is still to be called
run_in_loop == executor.status \in {"AwaitingModel", "ExecutingTool"}

\* what holds of a run whatever the time budget is: the iteration limit is
\* set, no more iterations or tool runs than it allows are made, the loop
\* goes on only within the limits that are set, a run ended as stopped has
\* reached one of them, and a run that answered was not stopped
run_within_limits ==
    /\ ~run_limits.max_iterations.none
    /\ executor.iterations <= run_limits.max_iterations.value
    /\ executor.tool_runs <= run_limits.max_iterations.value
    /\ run_in_loop =>
          /\ executor.iterations < run_limits.max_iterations.value
          /\ \/ run_limits.max_execution_time.none
             \/ executor.time_elapsed < run_limits.max_execution_time.value
    /\ (executor.status = "Failed" /\ executor.stopped) =>
          \/ executor.iterations >= run_limits.max_iterations.value
          \/ /\ ~run_limits.max_execution_time.none
             /\ executor.time_elapsed >= run_limits.max_execution_time.value
    /\ executor.status = "Done" => ~executor.stopped

\* C20: a run ends Done on an answer and Failed once max_iterations or the
\* time budget is exceeded; in every environment both limits are set, and
\* the tool executions of a run never exceed the configured maximum.
C20_BothLimitsAlwaysSet ==
    /\ run_within_limits
    /\ executor.status # "Idle" => ~run_limits.max_execution_time.none

\* C20, amended: every run terminates, Done on an answer, Failed once
\* max_iterations is exceeded or, where a time budget is configured
\* (production, testing), once that budget is exceeded; max_iterations is set
\* in every environment, the time budget in production and testing only.
C20_RunTerminates ==
    /\ [](/\ run_within_limits
          /\ executor.env \in {"production", "testing"}
                => ~run_limits.max_execution_time.none)
    /\ <>(executor.status \in {"Done", "Failed"})

\* a development run was stopped by max_iterations after fifteen tool runs,
\* its elapsed time beyond the budgets the other environments set
C20_Witness ==
    /\ executor.env = "development"
    /\ executor.status = "Failed"
    /\ executor.stopped
    /\ executor.tool_runs = 15
    /\ executor.time_elapsed > 30

(***************************************************************************)
(* The two places where failures become results: SpecBoundary              *)
(*                                                                         *)
(* One sandboxed tool call and the agent's runs, in one behaviour.         *)
(***************************************************************************)
InitBoundary ==
    /\ FILESYSTEM_CONFIG \in FilesystemConfigs
    /\ cwd \in Cwds
    /\ security_manager = FileSystemSecurity(FILESYSTEM_CONFIG)
    /\ files = InitialFiles
    /\ agent = [initialized |-> FALSE, tools |-> <<>>]
    /\ call = NoCall
    /\ stats = [wrapped |-> 0, direct |-> 0, errors |-> 0]
    /\ \E memory_type \in {"buffer", "limited", "summary"} :
        LET memory_config == [memory_type |-> memory_type, max_messages |-> MaxCapacity]
        IN  /\ memory = setup_memory(memory_config)
            /\ session = [memory_config |-> memory_config, turns |-> <<>>, last |-> "none",
                          output |-> "none", cause |-> "none", failures |-> 0,
                          surfaced |-> 0, runs |-> 0, alive |-> TRUE]
    /\ ValidateIdle
    /\ RingIdle
    /\ LedgerIdle
    /\ RunIdle
    /\ ToolsetIdle
    /\ ConsoleIdle
    /\ WriterIdle

\* the first call of a tool made by create_safe_file_tool
FirstSafeWrapperCall ==
    /\ stats.wrapped = 0
    /\ session.runs = 0
    /\ SafeWrapperCall

NextBoundary ==
    \/ FirstSafeWrapperCall
    \/ run

SpecBoundary == InitBoundary /\ [][NextBoundary]_vars

C22_TotalBytesGrowByMoved ==
    [][(/\ security_manager.metrics.active
        /\ stats'.wrapped = stats.wrapped + 1
        /\ call'.via = "wrapper")
          => security_manager'.metrics.total_bytes_processed
                = security_manager.metrics.total_bytes_processed + call'.moved]_vars

\* C23: the value get_metrics returned is a read-only snapshot: the
\* record_operation and add_error calls made after it returned change no
\* field of it.
C23_SnapshotIsImmutable ==
    \A i \in 1..Len(snapshots) :
        ReadNow(snapshots[i].returned) = ReadThen(snapshots[i].returned)

\* C24: two get_metrics calls with no record_operation or add_error between
\* them return equal results, and get_metrics changes no ledger state.
C24_GetMetricsIdempotent ==
    /\ \A i \in 1..Len(snapshots) :
          snapshots[i].mutations = 0 => ledger = snapshots[i].before
    /\ \A i \in 1..(Len(snapshots) - 1) :
          snapshots[i].mutations = snapshots[i + 1].mutations
             => ReadThen(snapshots[i].returned) = ReadThen(snapshots[i + 1].returned)

\* get_metrics was called twice in a row on a ledger that had recorded an
\* operation, bytes and an error
C24_Witness ==
    /\ Len(snapshots) = 2
    /\ snapshots[1].mutations = 0
    /\ snapshots[2].mutations = 0
    /\ snapshots[2].returned.total_bytes > 0
    /\ snapshots[2].returned.error_count > 0
    /\ snapshots[2].returned.operations.as_returned[<<"read">>] > 0

(***************************************************************************)
(* A sandbox whose security manager was given its own policy: SpecPolicy   *)
(*                                                                         *)
(* FileSystemSecurity(config) keeps the configuration it is given, while   *)
(* FILESYSTEM_CONFIG is the module's global; here the two are chosen       *)
(* independently and one call is made through safe_wrapper.                *)
(***************************************************************************)
\* a deployment whose size limit is above every file of the model
ConfigRoomy == MkConfig(SomeInt(DirSize), TRUE, AbsentFlag, <<>>, NoneList, TRUE)

\* the policies a caller hands to FileSystemSecurity(config=...)
Policies == {ConfigStrict, ConfigBasic, ConfigRoomy}

InitPolicy ==
    /\ FILESYSTEM_CONFIG \in FilesystemConfigs \cup {ConfigRoomy}
    /\ cwd \in Cwds
    /\ \E config \in Policies : security_manager = FileSystemSecurity(config)
    /\ files = InitialFiles
    /\ agent = [initialized |-> FALSE, tools |-> <<>>]
    /\ call = NoCall
    /\ stats = [wrapped |-> 0, direct |-> 0, errors |-> 0]
    /\ ValidateIdle
    /\ RingIdle
    /\ LedgerIdle
    /\ MemoryIdle
    /\ RunIdle
    /\ ToolsetIdle
    /\ ConsoleIdle
    /\ WriterIdle

\* one call of a tool made by create_safe_file_tool(tool_class, root_dir, security_manager)
PolicySafeWrapperCall ==
    /\ stats.wrapped = 0
    /\ SafeWrapperCall

NextPolicy ==
    \/ PolicySafeWrapperCall

SpecPolicy == InitPolicy /\ [][NextPolicy]_vars

\* C25: every check of a sandboxed call uses the policy given to that
\* sandbox's security manager and never a global setting: a read is refused
\* for its size exactly when the file is larger than the policy's size limit
\* and goes on when it is within it, a path is refused exactly when the
\* policy's patterns and extensions refuse it, and the call leaves the
\* policy as it was.
C25_OwnPolicyOnly ==
    LET policy == security_manager.config
    IN  /\ security_manager.security_config = policy.security
        /\ (call.via = "wrapper" /\ call.validated)
              => ((call.result = "SecurityError")
                    <=> ~validate_path(policy.security, call.path, call.root_dir, cwd))
        /\ (call.via = "wrapper" /\ call.size_checked)
              => /\ (call.result = "ResourceError")
                       <=> (~policy.max_file_size.none
                            /\ call.request_size > policy.max_file_size.value)
                 /\ (~policy.max_file_size.none
                     /\ call.request_size <= policy.max_file_size.value)
                       => call.logged

\* C26: each sandboxed call that is recorded increments the ledger counter
\* of its operation kind (the read tool 'read', the write tool 'write', the
\* list tool 'list', the search tool 'search'), and the ledger's set of
\* counter keys stays exactly {read, write, list, search}.
C26_CountersOfTheFourKinds ==
    [][(/\ security_manager.metrics.active
        /\ stats'.wrapped = stats.wrapped + 1
        /\ call'.logged)
          => LET kind == CHOOSE k \in DOMAIN operations_map :
                             operations_map[k] = call'.class
                 before == security_manager.metrics.operations
                 after == security_manager'.metrics.operations
             IN  /\ DOMAIN after = {<<"read">>, <<"write">>, <<"list">>, <<"search">>}
                 /\ after[<<kind>>] = before[<<kind>>] + 1]_vars

(***************************************************************************)
(* Where a sandboxed call is checked and where it acts: SpecLocation       *)
(*                                                                         *)
(* validate_path resolves the path with os.path.abspath, that is against   *)
(* the working directory of the process; the size check and the tool use   *)
(* os.path.join(root_dir, file_path).  The process may run in a directory  *)
(* below root_dir.                                                         *)
(***************************************************************************)
\* a working directory below the root, and a relative path that climbs
CwdNested == <<"/", "d", "/", "e">>
PathUp == <<".", ".", "/", "p">>

InitLocation ==
    /\ FILESYSTEM_CONFIG \in FilesystemConfigs
    /\ cwd \in Cwds \cup {CwdNested}
    /\ security_manager = FileSystemSecurity(FILESYSTEM_CONFIG)
    /\ files = InitialFiles
    /\ agent = [initialized |-> FALSE, tools |-> <<>>]
    /\ call = NoCall
    /\ stats = [wrapped |-> 0, direct |-> 0, errors |-> 0]
    /\ ValidateIdle
    /\ RingIdle
    /\ LedgerIdle
    /\ MemoryIdle
    /\ RunIdle
    /\ ToolsetIdle
    /\ ConsoleIdle
    /\ WriterIdle

\* one call of a tool made by create_safe_file_tool, from any working directory
LocationSafeWrapperCall ==
    /\ stats.wrapped = 0
    /\ \E tool_class \in ToolClasses, file_path \in ToolPaths \cup {PathUp}, op_ok \in BOOLEAN :
        \E payload \in PayloadSizes(tool_class) :
            ToolCall("wrapper", create_safe_file_tool(tool_class, RootData),
                     file_path, payload, op_ok)

NextLocation ==
    \/ LocationSafeWrapperCall

SpecLocation == InitLocation /\ [][NextLocation]_vars

\* abs_path of validate_path: the location path validation checks
validated_location(file_path) == abspath(file_path, cwd)

\* full_path of safe_wrapper, which is also where the tool acts
acted_location(root_dir, file_path) == normpath(join(root_dir, file_path))

\* C27: in safe_wrapper the location that path validation checked and the
\* location on which the size check and the underlying operation act are the
\* same, for every path and every working directory; a relative path that
\* validation accepted never makes them act outside root_dir.
C27_ValidatedIsActedLocation ==
    (/\ call.via = "wrapper"
     /\ validate_paths_enabled(security_manager.security_config)
     /\ call.validated
     /\ call.result # "SecurityError")
       => /\ validated_location(call.path) = acted_location(call.root_dir, call.path)
          /\ ~StartsWith(call.path, <<"/">>)
                => IsWithinRoot(acted_location(call.root_dir, call.path),
                                normpath(call.root_dir))

(***************************************************************************)
(* get_filesystem_tools on its own: SpecToolset                            *)
(***************************************************************************)
\* FILESYSTEM_CONFIG with security on or off, with and without a root_dir,
\* with every operation allowed or only some
ToolsetConfigs ==
    {[config EXCEPT !.root_dir = root_dir, !.allowed_operations = allowed_operations] :
        config \in {ConfigBasic, ConfigDevelopment},
        root_dir \in {SomeList(RootData), NoneList},
        allowed_operations \in {<<"read", "write", "list", "search">>, <<"list", "read">>}}

\* the arguments of a call; NoneList is an argument left out
RootDirArguments == {NoneList, SomeList(RootData), SomeList(CwdOutside), SomeList(<<>>)}
AllowedOperationsArguments ==
    {NoneList, SomeList(<<>>), SomeList(<<"read">>), SomeList(<<"list", "read">>),
     SomeList(<<"read", "delete", "write">>), SomeList(<<"search", "search">>)}

InitToolset ==
    /\ FILESYSTEM_CONFIG \in ToolsetConfigs
    /\ cwd \in Cwds
    /\ security_manager = FileSystemSecurity(FILESYSTEM_CONFIG)
    /\ files = InitialFiles
    /\ agent = [initialized |-> FALSE, tools |-> <<>>]
    /\ call = NoCall
    /\ stats = [wrapped |-> 0, direct |-> 0, errors |-> 0]
    /\ toolset = [root_dir |-> NoneList, allowed_operations |-> NoneList,
                  returned |-> FALSE, tools |-> <<>>]
    /\ ValidateIdle
    /\ RingIdle
    /\ LedgerIdle
    /\ MemoryIdle
    /\ RunIdle
    /\ ConsoleIdle
    /\ WriterIdle

\* tools = get_filesystem_tools(root_dir, allowed_operations)
GetFilesystemTools ==
    /\ ~toolset.returned
    /\ \E root_dir \in RootDirArguments, allowed_operations \in AllowedOperationsArguments :
        toolset' = [root_dir |-> root_dir, allowed_operations |-> allowed_operations,
                    returned |-> TRUE,
                    tools |-> get_filesystem_tools(root_dir, allowed_operations)]
    /\ UNCHANGED <<vpVars, sandboxVars, ringVars, ledgerVars, memoryVars, runVars,
                   consoleVars, writerVars>>

NextToolset ==
    \/ GetFilesystemTools

SpecToolset == InitToolset /\ [][NextToolset]_vars

\* the entries of a list of operations that name one of the four tools
RECURSIVE KnownOperations(_)
KnownOperations(operations) ==
    IF operations = <<>> THEN <<>>
    ELSE (IF Head(operations) \in {"read", "write", "list", "search"}
          THEN <<Head(operations)>> ELSE <<>>) \o KnownOperations(Tail(operations))

\* C28: with security enabled get_filesystem_tools returns exactly one tool
\* for each entry of allowed_operations (the argument, or the configured list
\* when the argument is left out) that is one of read, write, list, search,
\* in the order given, each rooted at the configured root directory (the
\* root_dir argument, else FILESYSTEM_CONFIG's, else the working directory),
\* and no tool for an operation that is not listed; with security disabled
\* it returns the four tools, unrooted, whatever the arguments are.
C28_ToolsFollowAllowedOperations ==
    toolset.returned =>
        LET listed == IF toolset.allowed_operations.none
                      THEN FILESYSTEM_CONFIG.allowed_operations
                      ELSE toolset.allowed_operations.items
            wanted == KnownOperations(listed)
            root == IF ~toolset.root_dir.none /\ toolset.root_dir.items # <<>>
                    THEN toolset.root_dir.items
                    ELSE IF ~FILESYSTEM_CONFIG.root_dir.none
                    THEN FILESYSTEM_CONFIG.root_dir.items
                    ELSE cwd
            tools == toolset.tools
        IN  IF FILESYSTEM_CONFIG.security.enable_security
            THEN /\ Len(tools) = Len(wanted)
                 /\ \A i \in 1..Len(tools) :
                       /\ tools[i].name = wanted[i]
                       /\ tools[i].class = operations_map[wanted[i]]
                       /\ tools[i].root_dir = SomeList(root)
            ELSE /\ [i \in 1..Len(tools) |-> tools[i].name]
                       = <<"read", "write", "list", "search">>
                 /\ \A i \in 1..Len(tools) : tools[i].root_dir.none

(***************************************************************************)
(* The chat loop of main.py and its commands: SpecConsole                  *)
(*                                                                         *)
(* A command is the text the user typed, a sequence of characters.         *)
(***************************************************************************)
\* number of commands typed in one behaviour
MaxCommands == 3

\* the texts of the model, character by character
QUIET_ == <<"Q", "U", "I", "E", "T">>
INFO_ == <<"I", "N", "F", "O">>
WARNING_ == <<"W", "A", "R", "N", "I", "N", "G">>
ERROR_ == <<"E", "R", "R", "O", "R">>
CmdExit == <<"e", "x", "i", "t">>
CmdExitUpper == <<"E", "X", "I", "T">>
CmdHistory == <<"h", "i", "s", "t", "o", "r", "y">>
CmdVerbose == <<"v", "e", "r", "b", "o", "s", "e">>
CmdVerboseCapital == <<"V", "e", "r", "b", "o", "s", "e">>
CmdVerboseQuiet == <<"v", "e", "r", "b", "o", "s", "e", " ", "q", "u", "i", "e", "t">>
CmdVerboseInfo == <<"v", "e", "r", "b", "o", "s", "e", " ", "i", "n", "f", "o">>
CmdVerboseInfoUpper == <<"v", "e", "r", "b", "o", "s", "e", " ", "I", "N", "F", "O">>
CmdVerboseWarning == <<"v", "e", "r", "b", "o", "s", "e", " ", "w", "a", "r", "n", "i", "n", "g">>
CmdVerboseError == <<"v", "e", "r", "b", "o", "s", "e", " ", "e", "r", "r", "o", "r">>
CmdVerboseLoud == <<"v", "e", "r", "b", "o", "s", "e", " ", "l", "o", "u", "d">>
CmdHello == <<"h", "e", "l", "l", "o">>

LowerLetters == <<"a", "b", "c", "d", "e", "f", "g", "h", "i", "j", "k", "l", "m", "n", "o", "p", "q", "r", "s", "t", "u", "v", "w", "x", "y", "z">>
UpperLetters == <<"A", "B", "C", "D", "E", "F", "G", "H", "I", "J", "K", "L", "M", "N", "O", "P", "Q", "R", "S", "T", "U", "V", "W", "X", "Y", "Z">>

\* str.str_lower() and str.str_upper()
str_lower(text) ==
    [i \in 1..Len(text) |->
        IF \E k \in 1..26 : UpperLetters[k] = text[i]
        THEN LowerLetters[CHOOSE k \in 1..26 : UpperLetters[k] = text[i]]
        ELSE text[i]]
str_upper(text) ==
    [i \in 1..Len(text) |->
        IF \E k \in 1..26 : LowerLetters[k] = text[i]
        THEN UpperLetters[CHOOSE k \in 1..26 : LowerLetters[k] = text[i]]
        ELSE text[i]]

RECURSIVE split_words(_)
\* str.split_words(): the words between runs of blanks
split_words(text) ==
    IF text = <<>> THEN <<>>
    ELSE IF Head(text) = " " THEN split_words(Tail(text))
    ELSE LET rest == split_words(Tail(text))
         IN  IF Len(text) > 1 /\ text[2] # " "
             THEN <<(<<Head(text)>> \o Head(rest))>> \o Tail(rest)
             ELSE <<(<<Head(text)>>)>> \o rest

\* class VerboseLevel(Enum): the members in definition order, and their names
VerboseLevel == <<"QUIET", "INFO", "WARNING", "ERROR">>
MemberName ==
    [level \in {"QUIET", "INFO", "WARNING", "ERROR"} |->
        CASE level = "QUIET" -> QUIET_
          [] level = "INFO" -> INFO_
          [] level = "WARNING" -> WARNING_
          [] level = "ERROR" -> ERROR_]

\* mutant: from_string without .str_upper()
from_string_case_sensitive(level_str) ==
    IF \E level \in DOMAIN MemberName : MemberName[level] = level_str
    THEN CHOOSE level \in DOMAIN MemberName : MemberName[level] = level_str
    ELSE "QUIET"

\* VerboseLevel.from_string(level_str): cls[level_str.str_upper()], QUIET on KeyError
from_string(level_str) ==
    IF \E level \in DOMAIN MemberName : MemberName[level] = str_upper(level_str)
    THEN CHOOSE level \in DOMAIN MemberName : MemberName[level] = str_upper(level_str)
    ELSE "QUIET"

\* ChatConfig.set_verbose_level(level): the new verbose_level
set_verbose_level(level) == from_string(level)

\* list(VerboseLevel).index(level)
LevelIndex(level) == CHOOSE i \in 1..Len(VerboseLevel) : VerboseLevel[i] = level

\* process_commands(command, agent, config): the console after the command
process_commands(command) ==
    LET lowered == str_lower(command)
        parts == split_words(lowered)
        logged == [console EXCEPT !.commands = Append(@, command),
                                  !.before = console.verbose_level]
    IN  IF lowered = CmdExit THEN [logged EXCEPT !.returned = TRUE]
        ELSE IF lowered = CmdHistory THEN [logged EXCEPT !.returned = FALSE]
        ELSE IF StartsWith(lowered, CmdVerbose)
          THEN LET level ==
                     IF Len(parts) > 1 THEN set_verbose_level(parts[2])
                     ELSE LET current_idx == LevelIndex(console.verbose_level) - 1
                              next_idx == (current_idx + 1) % Len(VerboseLevel)
                              next_level == VerboseLevel[next_idx + 1]
                          IN  set_verbose_level(MemberName[next_level])
               IN  [logged EXCEPT !.verbose_level = level,
                                  !.agent_verbose = (level = "INFO"),
                                  !.returned = FALSE]
        ELSE [logged EXCEPT !.returned = FALSE]

\* what the user types, already stripped by main
Commands ==
    {CmdExit, CmdExitUpper, CmdHistory, CmdVerbose, CmdVerboseCapital, CmdVerboseQuiet,
     CmdVerboseInfo, CmdVerboseInfoUpper, CmdVerboseWarning, CmdVerboseError,
     CmdVerboseLoud, CmdHello, <<>>}

\* config = ChatConfig(); agent = setup_agent(config)
InitConsole ==
    /\ console = [verbose_level |-> "QUIET", agent_verbose |-> ("QUIET" = "INFO"),
                  commands |-> <<>>, before |-> "QUIET", returned |-> FALSE]
    /\ ValidateIdle
    /\ SandboxIdle
    /\ RingIdle
    /\ LedgerIdle
    /\ MemoryIdle
    /\ RunIdle
    /\ ToolsetIdle
    /\ WriterIdle

\* one turn of main's loop: the loop ends when process_commands returns True
ProcessCommand ==
    /\ ~console.returned
    /\ Len(console.commands) < MaxCommands
    /\ \E command \in Commands : console' = process_commands(command)
    /\ UNCHANGED <<vpVars, sandboxVars, ringVars, ledgerVars, memoryVars, runVars,
                   toolsetVars, writerVars>>

NextConsole ==
    \/ ProcessCommand

SpecConsole == InitConsole /\ [][NextConsole]_vars

\* C29: the verbose level starts at QUIET; 'verbose' moves it one step along
\* QUIET -> INFO -> WARNING -> ERROR -> QUIET; 'verbose <level>' sets the
\* named level, and QUIET when the word names no level; the agent's verbose
\* flag is true exactly when the level is INFO; process_commands returns
\* true only for 'exit'.
C29_VerboseCycle ==
    LET typed == console.commands[Len(console.commands)]
        level == console.verbose_level
    IN  /\ console.commands = <<>> => level = "QUIET"
        /\ console.agent_verbose <=> (level = "INFO")
        /\ console.commands # <<>> =>
             /\ typed = CmdVerbose =>
                  level = (CASE console.before = "QUIET" -> "INFO"
                             [] console.before = "INFO" -> "WARNING"
                             [] console.before = "WARNING" -> "ERROR"
                             [] console.before = "ERROR" -> "QUIET")
             /\ typed = CmdVerboseQuiet => level = "QUIET"
             /\ typed = CmdVerboseInfo => level = "INFO"
             /\ typed = CmdVerboseWarning => level = "WARNING"
             /\ typed = CmdVerboseError => level = "ERROR"
             /\ typed = CmdVerboseLoud => level = "QUIET"
             /\ typed \in {CmdExit, CmdHistory, CmdHello} => level = console.before
             /\ typed = CmdExit => console.returned
             /\ console.returned => typed \in {CmdExit, CmdExitUpper}

\* 'verbose' typed at the last level wrapped around to QUIET, after a named
\* level had been set
C29_Witness ==
    /\ Len(console.commands) = 3
    /\ console.commands[1] = CmdVerboseInfo
    /\ console.commands[2] = CmdVerboseError
    /\ console.commands[3] = CmdVerbose
    /\ console.before = "ERROR"
    /\ console.verbose_level = "QUIET"
    /\ ~console.agent_verbose

(***************************************************************************)
(* FileWriter on one target file: SpecWriter                               *)
(*                                                                         *)
(* disk.directory is the state of the target's parent directory, disk.file *)
(* the content of the target (NoneList when there is no such file), and    *)
(* disk.temp_files the number of files replace_content has left in the     *)
(* temporary directory.                                                    *)
(***************************************************************************)
\* number of FileWriter operations in one behaviour, and the longest content
\* the model lets a file reach
MaxWrites == 2
MaxContentLen == 6

RECURSIVE readlines(_)
\* f.readlines(): the lines of the content, each with its newline
readlines(content) ==
    IF content = <<>> THEN <<>>
    ELSE IF \E i \in 1..Len(content) : content[i] = "\n"
         THEN LET i == CHOOSE k \in 1..Len(content) :
                           content[k] = "\n" /\ \A j \in 1..(k - 1) : content[j] # "\n"
              IN  <<SubSeq(content, 1, i)>> \o readlines(SubSeq(content, i + 1, Len(content)))
         ELSE <<content>>

RECURSIVE split_newline(_)
\* content.split('\n')
split_newline(content) ==
    IF \E i \in 1..Len(content) : content[i] = "\n"
    THEN LET i == CHOOSE k \in 1..Len(content) :
                      content[k] = "\n" /\ \A j \in 1..(k - 1) : content[j] # "\n"
         IN  <<SubSeq(content, 1, i - 1)>> \o split_newline(SubSeq(content, i + 1, Len(content)))
    ELSE <<content>>

RECURSIVE writelines(_)
\* f.writelines(lines): the lines one after the other
writelines(lines) ==
    IF lines = <<>> THEN <<>> ELSE Head(lines) \o writelines(Tail(lines))

\* '\n' * n, and [''] * n; nothing for n <= 0
Newlines(n) == [i \in 1..n |-> "\n"]
EmptyLines(n) == [i \in 1..n |-> <<>>]

RECURSIVE Extended(_, _)
\* while len(lines) < end_line: lines.append('\n')
Extended(lines, end_line) ==
    IF Len(lines) < end_line THEN Extended(Append(lines, <<"\n">>), end_line) ELSE lines

\* lines[i:j] = new_content, for i >= 0 and j >= 0
SliceAssign(lines, i, j, new_content) ==
    LET lo == Min(i, Len(lines))
        hi == Max(lo, Min(j, Len(lines)))
    IN  SubSeq(lines, 1, lo) \o new_content \o SubSeq(lines, hi + 1, Len(lines))

RECURSIVE str_replace(_, _, _)
\* line.replace(pattern, replacement), for a pattern that is not empty
str_replace(line, pattern, replacement) ==
    IF line = <<>> THEN <<>>
    ELSE IF StartsWith(line, pattern)
         THEN replacement \o str_replace(SubSeq(line, Len(pattern) + 1, Len(line)),
                                         pattern, replacement)
    ELSE <<Head(line)>> \o str_replace(Tail(line), pattern, replacement)

\* the patterns of the model that re.subn refuses to compile (re.error)
InvalidRegex == {<<"(">>}

\* FileWriter.validate_file(filepath): is_valid
validate_file(d) ==
    IF d.directory = "missing" THEN FALSE
    ELSE IF d.file.none THEN d.directory = "writable"
    ELSE d.file_writable

\* the result of a FileWriter operation and the disk it leaves
Failure(d) == [success |-> FALSE, disk |-> d]
Success(d) == [success |-> TRUE, disk |-> d]

\* open(filepath, 'w') followed by writing content
Written(d, content) ==
    [d EXCEPT !.file = SomeList(content),
              !.file_writable = IF d.file.none THEN TRUE ELSE d.file_writable]

\* FileWriter.modify_block(filepath, start_line, end_line, content)
modify_block(d, start_line, end_line, content) ==
    IF ~validate_file(d) THEN Failure(d)
    ELSE LET created == IF d.file.none THEN Written(d, Newlines(start_line - 1)) ELSE d
             lines == IF d.file.none THEN EmptyLines(start_line - 1)
                      ELSE readlines(d.file.items)
         IN  IF start_line < 1 THEN Failure(created)
             ELSE LET extended == Extended(lines, end_line)
                      parts == split_newline(content)
                      new_content == [parts EXCEPT ![Len(parts)] = @ \o <<"\n">>]
                      replaced == SliceAssign(extended, start_line - 1, end_line, new_content)
                  IN  Success(Written(created, writelines(replaced)))

\* FileWriter.insert_text(filepath, position, content)
insert_text(d, position, content) ==
    IF ~validate_file(d) THEN Failure(d)
    ELSE LET existing_content == IF d.file.none THEN <<>> ELSE d.file.items
             mid_point == Len(existing_content) \div 2
         IN  IF position = "begin"
               THEN Success(Written(d, content \o existing_content))
             ELSE IF position = "end"
               THEN Success(Written(d, existing_content \o content))
             ELSE IF position = "middle"
               THEN Success(Written(d, SubSeq(existing_content, 1, mid_point) \o content
                                       \o SubSeq(existing_content, mid_point + 1,
                                                 Len(existing_content))))
             ELSE Failure(d)

\* FileWriter.replace_content(filepath, pattern, replacement, use_regex): the
\* temporary file is made, filled line by line and moved over the target; an
\* exception on the way removes it again
replace_content(d, pattern, replacement, use_regex) ==
    IF ~validate_file(d) THEN Failure(d)
    ELSE IF d.file.none THEN Failure(d)
    ELSE LET lines == readlines(d.file.items)
             with_temp == [d EXCEPT !.temp_files = @ + 1]
         IN  IF use_regex /\ pattern \in InvalidRegex /\ lines # <<>>
             THEN Failure([with_temp EXCEPT !.temp_files = @ - 1])
             ELSE Success([with_temp EXCEPT
                              !.temp_files = @ - 1,
                              !.file = SomeList(writelines(
                                  [i \in 1..Len(lines) |->
                                      str_replace(lines[i], pattern, replacement)]))])

\* the contents a target file starts with, and the texts handed to the writer
InitialContents == {<<>>, <<"a", "\n">>, <<"a", "\n", "b">>}
InsertStrings == {<<"a">>, <<"b", "\n">>, <<"a", "\n", "b">>}
Positions == {"begin", "middle", "end", "top"}
StartLines == {-1, 0, 1, 2}
EndLines == {1, 2}
Patterns == {<<"a">>, <<"(">>}
Replacements == {<<"b">>, <<"b", "b">>}

InitWriter ==
    /\ \E directory \in {"missing", "readonly", "writable"} :
       \E file \in {NoneList} \cup {SomeList(content) : content \in InitialContents} :
       \E file_writable \in BOOLEAN :
          /\ directory = "missing" => file.none
          /\ file.none => ~file_writable
          /\ disk = [directory |-> directory, file |-> file, file_writable |-> file_writable,
                     temp_files |-> 0]
    /\ writer = [operation |-> "none", success |-> FALSE, before |-> disk, count |-> 0]
    /\ ValidateIdle
    /\ SandboxIdle
    /\ RingIdle
    /\ LedgerIdle
    /\ MemoryIdle
    /\ RunIdle
    /\ ToolsetIdle
    /\ ConsoleIdle

\* one FileWriter operation with its outcome
Operate(operation, outcome) ==
    /\ writer.count < MaxWrites
    /\ outcome.disk.file.none \/ Len(outcome.disk.file.items) <= MaxContentLen
    /\ disk' = outcome.disk
    /\ writer' = [operation |-> operation, success |-> outcome.success, before |-> disk,
                  count |-> writer.count + 1]
    /\ UNCHANGED <<vpVars, sandboxVars, ringVars, ledgerVars, memoryVars, runVars,
                   toolsetVars, consoleVars>>

ModifyBlock ==
    \E start_line \in StartLines, end_line \in EndLines, content \in InsertStrings :
        Operate("modify_block", modify_block(disk, start_line, end_line, content))

InsertText ==
    \E position \in Positions, content \in InsertStrings :
        Operate("insert_text", insert_text(disk, position, content))

ReplaceContent ==
    \E pattern \in Patterns, replacement \in Replacements, use_regex \in BOOLEAN :
        Operate("replace_content", replace_content(disk, pattern, replacement, use_regex))

NextWriter ==
    \/ ModifyBlock
    \/ InsertText
    \/ ReplaceContent

SpecWriter == InitWriter /\ [][NextWriter]_vars

\* C30: a FileWriter operation (modify_block, insert_text, replace_content)
\* that returns failure leaves the file system as it was before the call,
\* also when the target did not exist.
C30_FailureLeavesDiskUnchanged ==
    (writer.operation # "none" /\ ~writer.success) => disk = writer.before

====
